---- MODULE Spec2Model ----
(***************************************************************************)
(* Model of tubular/jenkins.py: the capped exponential backoff schedule    *)
(* computed by _backoff_timeout and the trigger-and-poll orchestration of  *)
(* trigger_build.                                                          *)
(*                                                                         *)
(* Two specifications share the variables:                                 *)
(*   SpecBackoff  calls _backoff_timeout(timeout, base, factor) on inputs  *)
(*                drawn from bounded sets and pulls values from a producer *)
(*                obtained from the returned wait_gen;                     *)
(*   Spec         one call of trigger_build, whose collaborator (the       *)
(*                jenkinsapi client) answers nondeterministically.         *)
(*                                                                         *)
(* Numbers are integers: timeout is documented as an int number of seconds *)
(* and base/factor are integer literals, and on integers every division of *)
(* the code but the argument of math.log is exact.                         *)
(***************************************************************************)
EXTENDS Integers, Sequences, FiniteSets, TLC

VARIABLES
    timeout,     \* argument `timeout`
    base,        \* argument `base` of _backoff_timeout
    factor,      \* argument `factor` of _backoff_timeout
    called,      \* TRUE once _backoff_timeout has returned
    tries,       \* local `tries` of _backoff_timeout
    remainder,   \* local `remainder` of _backoff_timeout
    max_tries,   \* second component of the returned tuple
    gen,         \* the producer instance: [n, at], at = where expo() is suspended
    waits,       \* the values the producer instance has yielded so far, in order
    pc,          \* position of trigger_build
    job_params,  \* argument `job_params` of trigger_build
    request_params, \* the dict built from job_params, as a set of pairs
    other,       \* a second schedule and its producer instance (SpecTwo)
    outcome,     \* what trigger_build gave its caller
    nConnect,    \* number of Jenkins(...) constructions
    nHasJob,     \* number of jenkins.has_job calls
    jobFound,    \* answer of the latest jenkins.has_job call
    nInvoke,     \* number of job.invoke calls
    nChecks,     \* number of build.is_running calls (`tries` of the retry loop)
    nRunning,    \* number of is_running calls that answered True
    lastCheck,   \* answer of the latest is_running call
    nSleeps,     \* number of time.sleep calls
    seconds,     \* the duration of the pending sleep
    slept,       \* cumulative time slept
    nGetStatus,  \* number of build.get_status calls
    statusValue  \* value the latest build.get_status call returned

schedVars == <<timeout, base, factor, called, tries, remainder, max_tries>>
genVars == <<gen, waits>>
callVars == <<nConnect, nHasJob, jobFound, nInvoke, nGetStatus, statusValue>>
pollVars == <<nChecks, nRunning, lastCheck, nSleeps, seconds, slept>>
vars == <<schedVars, genVars, pc, job_params, request_params, other, outcome,
          callVars, pollVars>>

----------------------------------------------------------------------------
(* Bounds *)

MaxTimeout == 125      \* largest timeout given to _backoff_timeout in SpecBackoff
MaxBase == 3           \* largest base
MaxFactor == 2         \* largest factor
ExtraPulls == 2        \* pulls made past the first max_tries - 1 values
MaxPollTimeout == 12   \* largest timeout given to trigger_build in Spec
MaxTwoTimeout == 6     \* largest timeout of either schedule in SpecTwo

----------------------------------------------------------------------------
(* Arithmetic helpers *)

RECURSIVE Pow(_, _)
Pow(b, k) == IF k = 0 THEN 1 ELSE b * Pow(b, k - 1)

RECURSIVE SumFirst(_, _)
SumFirst(s, k) == IF k = 0 THEN 0 ELSE s[k] + SumFirst(s, k - 1)

Min(a, b) == IF a <= b THEN a ELSE b

\* factor*(base**k - 1)/(base - 1): the sum of the first k exponential terms.
\* base - 1 divides base**k - 1, so the division is exact.
ExpoSum(b, f, k) == (f * (Pow(b, k) - 1)) \div (b - 1)

RECURSIVE FloorLogFrom(_, _, _, _)
FloorLogFrom(num, den, b, k) ==
    IF den * Pow(b, k + 1) <= num THEN FloorLogFrom(num, den, b, k + 1) ELSE k

\* The mathematical floor(log_b(num/den)) for num/den >= 1.
FloorLog(num, den, b) == FloorLogFrom(num, den, b, 0)

----------------------------------------------------------------------------
(* _backoff_timeout *)

\* math.log(x, base) is evaluated in double precision as log(x)/log(base).
\* For x an exact power base**k the quotient is k or one ulp away from it; at
\* the pairs <<base, k>> below it is below k, so that int() truncates it to
\* k - 1 (math.log(243, 3) = 4.999999999999999, math.log(1000, 10) =
\* 2.9999999999999996).  These are all such pairs with base <= 10 and
\* base**k <= 10**6; between exact powers the quotient is far from an integer
\* and int() gives the mathematical floor.
LogBelowInteger == {<<3, 5>>, <<3, 10>>, <<9, 5>>, <<10, 3>>, <<10, 6>>}

\* int(math.log(num/den, b)) for integers num >= den > 0.
IntMathLog(num, den, b) ==
    LET k == FloorLog(num, den, b)
    IN  IF num = den * Pow(b, k) /\ <<b, k>> \in LogBelowInteger
        THEN k - 1
        ELSE k

\* Tries with the logarithm rounded up instead of truncated
TriesRoundedUp(t, b, f) == IntMathLog(t * (b - 1) + f, f, b) + 1

\* tries = int(math.log(timeout * (base - 1) / factor + 1, base))
Tries(t, b, f) == IntMathLog(t * (b - 1) + f, f, b)

\* Remainder without the division by base - 1
RemainderNoDivide(t, b, f, tr) == t - f * (Pow(b, tr) - 1)

\* remainder = timeout - (factor * (base ** tries - 1)) / (base - 1)
Remainder(t, b, f, tr) == t - (f * (Pow(b, tr) - 1)) \div (b - 1)

\* MaxTries without the extra attempt that consumes the remainder
MaxTriesNoExtra(tr, rem) == tr + 1

\* MaxTries with the extra attempt even when the remainder is zero
MaxTriesAlwaysExtra(tr, rem) == tr + 2

\* MaxTries with the two branches exchanged
MaxTriesSwapped(tr, rem) == IF rem = 0 THEN tr + 2 ELSE tr + 1

\* the max_tries returned: tries + 1 if remainder == 0, else tries + 2
MaxTries(tr, rem) == IF rem = 0 THEN tr + 1 ELSE tr + 2

\* The max_tries of the tuple _backoff_timeout(t, b, f) returns
BackoffMaxTries(t, b, f) ==
    LET tr == Tries(t, b, f)
    IN  MaxTries(tr, Remainder(t, b, f, tr))

\* A producer instance that has not run yet: the state of expo() just called.
NewExpo == [n |-> 0, at |-> "start"]

\* ExpoNext without the cap: the plain exponential progression
ExpoNextUncapped(g, tr, rem, b, f) ==
    LET n == IF g.at = "yield_a" THEN g.n + 1 ELSE g.n
    IN  [gen |-> [n |-> n, at |-> "yield_a"], value |-> f * Pow(b, n)]

\* One next() on a producer instance g of a schedule with the given tries and
\* remainder: resume expo() where it is suspended and run to the next yield.
\* Suspended at `yield a`, it first executes n += 1; suspended at
\* `yield remainder` (or not started), it goes straight round the loop.
ExpoNext(g, tr, rem, b, f) ==
    LET n == IF g.at = "yield_a" THEN g.n + 1 ELSE g.n
        a == f * Pow(b, n)
    IN  IF n >= tr
        THEN [gen |-> [n |-> n, at |-> "yield_remainder"], value |-> rem]
        ELSE [gen |-> [n |-> n, at |-> "yield_a"], value |-> a]

----------------------------------------------------------------------------
(* SpecBackoff: _backoff_timeout on bounded inputs, and a consumer of the  *)
(* producer it returns.                                                    *)

NoOutcome == [kind |-> "none", exc |-> "", mentions |-> "", value |-> ""]

TriggerIdle ==
    /\ pc = "start"
    /\ job_params = "empty"
    /\ request_params = {}
    /\ outcome = NoOutcome
    /\ nConnect = 0 /\ nHasJob = 0 /\ jobFound = "none" /\ nInvoke = 0
    /\ nGetStatus = 0 /\ statusValue = ""
    /\ nChecks = 0 /\ nRunning = 0 /\ lastCheck = "none"
    /\ nSleeps = 0 /\ seconds = 0 /\ slept = 0

\* The second schedule before its call of _backoff_timeout
OtherUnset ==
    [timeout |-> 0, base |-> 2, factor |-> 1, called |-> FALSE,
     tries |-> 0, remainder |-> 0, max_tries |-> 0,
     gen |-> NewExpo, waits |-> <<>>]

SchedUnset ==
    /\ called = FALSE
    /\ tries = 0 /\ remainder = 0 /\ max_tries = 0
    /\ gen = NewExpo /\ waits = <<>>

\* timeout=60 * 30 in the signature of trigger_build
DefaultTimeout == 60 * 30

InitBackoff ==
    /\ timeout \in (0..MaxTimeout) \cup {DefaultTimeout}
    /\ base \in 2..MaxBase
    /\ factor \in 1..MaxFactor
    /\ SchedUnset
    /\ other = OtherUnset
    /\ TriggerIdle

\* wait_gen, max_tries = _backoff_timeout(timeout, base, factor)
BackoffTimeout ==
    /\ ~called
    /\ called' = TRUE
    /\ tries' = Tries(timeout, base, factor)
    /\ remainder' = Remainder(timeout, base, factor, tries')
    /\ max_tries' = MaxTries(tries', remainder')
    /\ UNCHANGED <<timeout, base, factor, genVars>>
    /\ UNCHANGED <<pc, outcome, callVars, pollVars>>
    /\ UNCHANGED <<job_params, request_params, other>>

\* wait_gen(): a new producer instance, replacing the one in use
WaitGen ==
    /\ called
    /\ waits # <<>>
    /\ gen' = NewExpo
    /\ waits' = <<>>
    /\ UNCHANGED schedVars
    /\ UNCHANGED <<pc, outcome, callVars, pollVars>>
    /\ UNCHANGED <<job_params, request_params, other>>

\* next() on the producer instance
Pull ==
    /\ called
    /\ Len(waits) < max_tries - 1 + ExtraPulls
    /\ LET r == ExpoNext(gen, tries, remainder, base, factor)
       IN  /\ gen' = r.gen
           /\ waits' = Append(waits, r.value)
    /\ UNCHANGED schedVars
    /\ UNCHANGED <<pc, outcome, callVars, pollVars>>
    /\ UNCHANGED <<job_params, request_params, other>>

NextBackoff == BackoffTimeout \/ WaitGen \/ Pull

SpecBackoff == InitBackoff /\ [][NextBackoff]_vars

----------------------------------------------------------------------------
(* SpecTwo: two schedules, each from its own call of _backoff_timeout, and *)
(* one producer instance of each, pulled in any interleaving.  With equal  *)
(* inputs the two schedules hold the same closure values, which is the     *)
(* case of two producers of one schedule.                                  *)

\* ExpoFrame with n kept in one place for every producer
ExpoFrameShared(own, sibling) == sibling

\* The frame a next() resumes: n = 0 is a local of expo(), so each call of
\* wait_gen() has a frame of its own.
ExpoFrame(own, sibling) == own

InitTwo ==
    /\ timeout \in 0..MaxTwoTimeout
    /\ base \in 2..MaxBase
    /\ factor \in 1..MaxFactor
    /\ SchedUnset
    /\ \E t \in 0..MaxTwoTimeout, b \in 2..MaxBase, f \in 1..MaxFactor :
          other = [OtherUnset EXCEPT !.timeout = t, !.base = b, !.factor = f]
    /\ TriggerIdle

\* wait_gen, max_tries = _backoff_timeout(timeout, base, factor), second call
BackoffTimeoutOther ==
    /\ ~other.called
    /\ LET tr == Tries(other.timeout, other.base, other.factor)
           rem == Remainder(other.timeout, other.base, other.factor, tr)
       IN  other' = [other EXCEPT !.called = TRUE,
                                  !.tries = tr,
                                  !.remainder = rem,
                                  !.max_tries = MaxTries(tr, rem)]
    /\ UNCHANGED <<schedVars, genVars>>
    /\ UNCHANGED <<pc, outcome, callVars, pollVars>>
    /\ UNCHANGED <<job_params, request_params>>

\* wait_gen() of the second schedule: a new producer instance
WaitGenOther ==
    /\ other.called
    /\ other.waits # <<>>
    /\ other' = [other EXCEPT !.gen = NewExpo, !.waits = <<>>]
    /\ UNCHANGED <<schedVars, genVars>>
    /\ UNCHANGED <<pc, outcome, callVars, pollVars>>
    /\ UNCHANGED <<job_params, request_params>>

\* next() on the producer instance of the second schedule
PullOther ==
    /\ other.called
    /\ Len(other.waits) < other.max_tries - 1 + ExtraPulls
    /\ LET r == ExpoNext(ExpoFrame(other.gen, gen), other.tries,
                         other.remainder, other.base, other.factor)
       IN  other' = [other EXCEPT !.gen = r.gen,
                                  !.waits = Append(other.waits, r.value)]
    /\ UNCHANGED <<schedVars, genVars>>
    /\ UNCHANGED <<pc, outcome, callVars, pollVars>>
    /\ UNCHANGED <<job_params, request_params>>

NextTwo ==
    \/ BackoffTimeout
    \/ WaitGen
    \/ Pull
    \/ BackoffTimeoutOther
    \/ WaitGenOther
    \/ PullOther

SpecTwo == InitTwo /\ [][NextTwo]_vars

----------------------------------------------------------------------------
(* Spec: one call of trigger_build(..., job_params, timeout).              *)
(*                                                                         *)
(* The jenkinsapi collaborator answers each call nondeterministically: it  *)
(* returns, or raises one of the two failure kinds the code names,         *)
(* JenkinsAPIException and HTTPError.  poll_build_for_result runs under    *)
(* backoff.on_predicate with the library's defaults: predicate             *)
(* operator.not_ (retry while the target returns a false value) and        *)
(* jitter full_jitter (each sleep lasts a random time between 0 and the    *)
(* value pulled from the producer).                                        *)

DefaultBase == 2     \* base=2 in the signature of _backoff_timeout
DefaultFactor == 1   \* factor=1 in the signature of _backoff_timeout

Statuses == {"SUCCESS", "FAILURE"}
Failures == {"JenkinsAPIException", "HTTPError"}

Raised(exc, mentions) ==
    [kind |-> "raised", exc |-> exc, mentions |-> mentions, value |-> ""]
Returned(v) ==
    [kind |-> "returned", exc |-> "", mentions |-> "", value |-> v]

\* PollGiveup that returns instead of raising
PollGiveupReturns == NoOutcome

\* _poll_giveup(data): raise BackendError naming the build
PollGiveup == Raised("BackendError", "build_name")

\* RetryWanted for a target that returns build.is_running() (the `not` lost)
RetryWantedInverted(isRunning) == ~isRunning

\* poll_build_for_result(build) returns `not build.is_running()`, and
\* on_predicate retries when operator.not_ of that value is true.
RetryWanted(isRunning) == ~(~isRunning)

\* HasJobOutcome without the check of has_job's answer
HasJobOutcomeUnchecked(found) == NoOutcome

\* if not jenkins.has_job(job_name): raise BackendError('Job not found: ...')
HasJobOutcome(found) ==
    IF ~found THEN Raised("BackendError", "job_name") ELSE NoOutcome

\* ConnectOutcome without the try/except around Jenkins(...)
ConnectOutcomeUncaught(exc) == Raised(exc, "err")

\* except (JenkinsAPIException, HTTPError) as err: raise BackendError(str(err))
ConnectOutcome(exc) ==
    IF exc \in {"JenkinsAPIException", "HTTPError"}
    THEN Raised("BackendError", "err")
    ELSE Raised(exc, "err")

\* `return status`, where status = build.get_status()
ReturnValue(status) == status

\* Jitter that adds up to a second to the value (random_jitter)
JitterAdded(value) == value..(value + 1)

\* DecoratorMaxTries that allows one attempt more than the schedule
DecoratorMaxTriesPlusOne(mt) == mt + 1

\* max_tries=max_tries in the arguments of backoff.on_predicate
DecoratorMaxTries(mt) == mt

\* full_jitter(value) = random.uniform(0, value)
Jitter(value) == 0..value

\* The pairs of a job_params that is a set of (name, value) tuples
ParamPairs(jp) ==
    IF jp = "pairs" THEN {<<"FOO", "bar">>, <<"BAZ", "biz">>} ELSE {}

\* request_params = {}; for param in job_params:
\*     request_params[param[0]] = param[1]
RequestParams(pairs) == {<<p[1], p[2]>> : p \in pairs}

Init ==
    /\ timeout \in 0..MaxPollTimeout
    /\ base = DefaultBase
    /\ factor = DefaultFactor
    /\ SchedUnset
    /\ pc = "start"
    /\ job_params \in {"None", "empty", "pairs"}
    /\ request_params = {}
    /\ other = OtherUnset
    /\ outcome = NoOutcome
    /\ nConnect = 0 /\ nHasJob = 0 /\ jobFound = "none" /\ nInvoke = 0
    /\ nGetStatus = 0 /\ statusValue = ""
    /\ nChecks = 0 /\ nRunning = 0 /\ lastCheck = "none"
    /\ nSleeps = 0 /\ seconds = 0 /\ slept = 0

\* Lines 105-126: compute the schedule, define the decorated poll function,
\* and build request_params by iterating job_params (None is not iterable).
Start ==
    /\ pc = "start"
    /\ called' = TRUE
    /\ tries' = Tries(timeout, base, factor)
    /\ remainder' = Remainder(timeout, base, factor, tries')
    /\ max_tries' = MaxTries(tries', remainder')
    /\ IF job_params = "None"
       THEN /\ request_params' = {}
            /\ outcome' = Raised("TypeError", "")
            /\ pc' = "done"
       ELSE /\ request_params' = RequestParams(ParamPairs(job_params))
            /\ outcome' = outcome
            /\ pc' = "connect"
    /\ UNCHANGED <<timeout, base, factor, genVars, job_params, other>>
    /\ UNCHANGED <<callVars, pollVars>>

\* Lines 128-132: jenkins = Jenkins(base_url, ...)
Connect ==
    /\ pc = "connect"
    /\ nConnect' = nConnect + 1
    /\ \E r \in {"ok"} \cup Failures :
          IF r = "ok"
          THEN /\ pc' = "has_job"
               /\ outcome' = outcome
          ELSE /\ pc' = "done"
               /\ outcome' = ConnectOutcome(r)
    /\ UNCHANGED <<schedVars, genVars, pollVars>>
    /\ UNCHANGED <<job_params, request_params, other>>
    /\ UNCHANGED <<nHasJob, jobFound, nInvoke, nGetStatus, statusValue>>

\* Lines 134-137: if not jenkins.has_job(job_name): raise BackendError
HasJob ==
    /\ pc = "has_job"
    /\ nHasJob' = nHasJob + 1
    /\ \E r \in {"true", "false"} \cup Failures :
          /\ jobFound' = IF r \in Failures THEN "raised" ELSE r
          /\ IF r \in Failures
             THEN /\ pc' = "done"
                  /\ outcome' = Raised(r, "")
             ELSE LET o == HasJobOutcome(r = "true")
                  IN  IF o.kind = "raised"
                      THEN pc' = "done" /\ outcome' = o
                      ELSE pc' = "invoke" /\ outcome' = outcome
    /\ UNCHANGED <<schedVars, genVars, pollVars>>
    /\ UNCHANGED <<job_params, request_params, other>>
    /\ UNCHANGED <<nConnect, nInvoke, nGetStatus, statusValue>>

\* Lines 140-144: job = jenkins[job_name]; queue_item = job.invoke(...)
Invoke ==
    /\ pc = "invoke"
    /\ nInvoke' = nInvoke + 1
    /\ \E r \in {"ok"} \cup Failures :
          IF r = "ok"
          THEN pc' = "block" /\ outcome' = outcome
          ELSE pc' = "done" /\ outcome' = Raised(r, "")
    /\ UNCHANGED <<schedVars, genVars, pollVars>>
    /\ UNCHANGED <<job_params, request_params, other>>
    /\ UNCHANGED <<nConnect, nHasJob, jobFound, nGetStatus, statusValue>>

\* Line 147: queue_item.block_until_building()
BlockUntilBuilding ==
    /\ pc = "block"
    /\ \E r \in {"ok"} \cup Failures :
          IF r = "ok"
          THEN pc' = "get_build" /\ outcome' = outcome
          ELSE pc' = "done" /\ outcome' = Raised(r, "")
    /\ UNCHANGED <<schedVars, genVars, callVars, pollVars>>
    /\ UNCHANGED <<job_params, request_params, other>>

\* Lines 148-150: build = queue_item.get_build()
GetBuild ==
    /\ pc = "get_build"
    /\ \E r \in {"ok"} \cup Failures :
          IF r = "ok"
          THEN pc' = "poll" /\ outcome' = outcome
          ELSE pc' = "done" /\ outcome' = Raised(r, "")
    /\ UNCHANGED <<schedVars, genVars, callVars, pollVars>>
    /\ UNCHANGED <<job_params, request_params, other>>

\* Line 153: poll_build_for_result(build) enters the retry loop of
\* on_predicate: tries = 0; wait = wait_gen()
PollStart ==
    /\ pc = "poll"
    /\ gen' = NewExpo
    /\ waits' = <<>>
    /\ pc' = "check"
    /\ UNCHANGED <<schedVars, outcome, callVars, pollVars>>
    /\ UNCHANGED <<job_params, request_params, other>>

\* One iteration of the retry loop up to its sleep: tries += 1; call the
\* target (line 118); on a value that wants a retry, give up if
\* tries == max_tries, else pull the next wait and jitter it.
PollCheck ==
    /\ pc = "check"
    /\ nChecks' = nChecks + 1
    /\ \E r \in {"running", "finished"} \cup Failures :
          /\ lastCheck' = IF r \in Failures THEN "raised" ELSE r
          /\ nRunning' = IF r = "running" THEN nRunning + 1 ELSE nRunning
          /\ IF r \in Failures
             THEN /\ pc' = "done"
                  /\ outcome' = Raised(r, "")
                  /\ UNCHANGED <<genVars, seconds>>
             ELSE IF ~RetryWanted(r = "running")
             THEN /\ pc' = "get_status"
                  /\ outcome' = outcome
                  /\ UNCHANGED <<genVars, seconds>>
             ELSE IF nChecks' = DecoratorMaxTries(max_tries)
             THEN /\ IF PollGiveup.kind = "raised"
                     THEN pc' = "done" /\ outcome' = PollGiveup
                     ELSE pc' = "get_status" /\ outcome' = outcome
                  /\ UNCHANGED <<genVars, seconds>>
             ELSE LET w == ExpoNext(gen, tries, remainder, base, factor)
                  IN  /\ gen' = w.gen
                      /\ waits' = Append(waits, w.value)
                      /\ \E s \in Jitter(w.value) : seconds' = s
                      /\ pc' = "sleep"
                      /\ outcome' = outcome
    /\ UNCHANGED <<schedVars, callVars, nSleeps, slept>>
    /\ UNCHANGED <<job_params, request_params, other>>

\* time.sleep(seconds) in the retry loop, then round the loop again
Sleep ==
    /\ pc = "sleep"
    /\ nSleeps' = nSleeps + 1
    /\ slept' = slept + seconds
    /\ pc' = "check"
    /\ UNCHANGED <<schedVars, genVars, outcome, callVars>>
    /\ UNCHANGED <<job_params, request_params, other>>
    /\ UNCHANGED <<nChecks, nRunning, lastCheck, seconds>>

\* Lines 154-156: status = build.get_status(); return status
GetStatus ==
    /\ pc = "get_status"
    /\ nGetStatus' = nGetStatus + 1
    /\ \E r \in Statuses \cup Failures :
          IF r \in Failures
          THEN /\ outcome' = Raised(r, "")
               /\ statusValue' = statusValue
          ELSE /\ outcome' = Returned(ReturnValue(r))
               /\ statusValue' = r
    /\ pc' = "done"
    /\ UNCHANGED <<schedVars, genVars, pollVars>>
    /\ UNCHANGED <<job_params, request_params, other>>
    /\ UNCHANGED <<nConnect, nHasJob, jobFound, nInvoke>>

Next ==
    \/ Start
    \/ Connect
    \/ HasJob
    \/ Invoke
    \/ BlockUntilBuilding
    \/ GetBuild
    \/ PollStart
    \/ PollCheck
    \/ Sleep
    \/ GetStatus

Spec == Init /\ [][Next]_vars

\* trigger_build is synchronous and single-threaded: as long as a step
\* remains, the call takes it (every collaborator call and sleep returns).
SpecFair == Spec /\ WF_vars(Next)

----------------------------------------------------------------------------
(* Properties of the schedule (SpecBackoff) *)

\* timeout is an exact sum factor*(base**k - 1)/(base - 1) of the progression
IsExactSum(t, b, f) == ExpoSum(b, f, FloorLog(t * (b - 1) + f, f, b)) = t

\* C1: the first max_tries - 1 values of a fresh producer sum to timeout.
C1_SumEqualsTimeout ==
    (called /\ Len(waits) >= max_tries - 1)
        => SumFirst(waits, max_tries - 1) = timeout

C1_Witness ==
    /\ called
    /\ base = 3 /\ factor = 2 /\ timeout = 100
    /\ Len(waits) = max_tries - 1
    /\ remainder > 0

\* C2: the first `tries` values are factor*base^0 .. factor*base^(tries-1),
\* tries is the largest integer whose exponential sum does not exceed timeout,
\* and 0 <= remainder < factor*base^tries, so no produced wait is negative.
C2_TriesIsLargest ==
    called =>
        /\ \A i \in 1..Min(Len(waits), tries) : waits[i] = factor * Pow(base, i - 1)
        /\ ExpoSum(base, factor, tries) <= timeout
        /\ ExpoSum(base, factor, tries + 1) > timeout
        /\ 0 <= remainder /\ remainder < factor * Pow(base, tries)
        /\ \A i \in 1..Len(waits) : waits[i] >= 0

\* C3: when timeout is not an exact sum, the remainder is positive,
\* max_tries = tries + 2 and the (tries+1)-th value, the last of the first
\* max_tries - 1, is timeout minus the exponential sum of `tries` terms.
C3_RemainderIsLast ==
    (called /\ (~IsExactSum(timeout, base, factor) \/ remainder > 0)) =>
        /\ remainder > 0
        /\ max_tries = tries + 2
        /\ Len(waits) >= tries + 1 =>
               waits[max_tries - 1] = timeout - ExpoSum(base, factor, tries)

C3_Witness ==
    /\ called
    /\ base = 2 /\ factor = 1 /\ timeout = 10
    /\ max_tries = 5
    /\ waits = <<1, 2, 4, 3>>

\* C4: when timeout is an exact sum, max_tries = tries + 1 and each of the
\* first max_tries - 1 values is an exponential term produced by `yield a`:
\* the remainder is not emitted among them.
C4_ExactSumNoRemainder ==
    (called /\ IsExactSum(timeout, base, factor)) =>
        /\ max_tries = tries + 1
        /\ \A i \in 1..Min(Len(waits), max_tries - 1) :
               waits[i] = factor * Pow(base, i - 1)
        /\ (Len(waits) <= max_tries - 1) => gen.at # "yield_remainder"

----------------------------------------------------------------------------
(* Properties of trigger_build (Spec) *)

TimeoutError == Raised("BackendError", "build_name")

\* C5: for timeout = 0, max_tries = 1; the poll makes exactly one is_running
\* check, pulls nothing from the producer and never sleeps before it gives
\* up or succeeds.
C5_ZeroTimeoutSingleCheck ==
    (called /\ timeout = 0) =>
        /\ max_tries = 1
        /\ nChecks <= 1
        /\ waits = <<>> /\ gen = NewExpo
        /\ nSleeps = 0 /\ slept = 0 /\ pc # "sleep"
        /\ (outcome = TimeoutError \/ pc = "get_status" \/ nGetStatus > 0)
               => nChecks = 1

C5_Witness ==
    /\ timeout = 0
    /\ nChecks = 1 /\ lastCheck = "running"
    /\ outcome = TimeoutError

C7_TimeoutIffAllRunning ==
    called =>
        /\ nRunning = max_tries =>
               /\ pc = "done"
               /\ outcome = TimeoutError
               /\ nGetStatus = 0
        /\ outcome = TimeoutError =>
               /\ nChecks = max_tries
               /\ nRunning = max_tries
        /\ (nChecks = max_tries /\ lastCheck = "finished") =>
               /\ outcome # TimeoutError
               /\ pc \in {"get_status", "done"}
               /\ pc = "done" => nGetStatus = 1

C7_Witness ==
    /\ max_tries = 5
    /\ nRunning = max_tries
    /\ outcome = TimeoutError

\* C8: when has_job answers false, the call raises BackendError whose message
\* contains job_name; job.invoke is never called, nothing is polled and no
\* status is returned.
C8_JobNotFound ==
    jobFound = "false" =>
        /\ pc = "done"
        /\ outcome = Raised("BackendError", "job_name")
        /\ nInvoke = 0
        /\ nChecks = 0 /\ nSleeps = 0
        /\ nGetStatus = 0

C8_Witness ==
    /\ jobFound = "false"
    /\ nHasJob = 1
    /\ outcome.kind = "raised"

\* C9: a failure raised by the collaborator at any step reaches the caller
\* as BackendError: the caller receives a status or a BackendError and no
\* other exception kind.
C9_OnlyBackendError ==
    (nConnect > 0 /\ outcome.kind = "raised") => outcome.exc = "BackendError"

\* C10: a successful call returns the value of build.get_status(), which is
\* called once and only after an is_running check answered False; the first
\* such check is the last check, and no sleep follows it.
C10_StatusAfterFinished ==
    /\ nGetStatus <= 1
    /\ (pc = "get_status" \/ nGetStatus = 1) => lastCheck = "finished"
    /\ outcome.kind = "returned" =>
           /\ nGetStatus = 1
           /\ outcome.value = statusValue
           /\ outcome.value \in Statuses
    /\ lastCheck = "finished" =>
           /\ nChecks = nRunning + 1
           /\ nSleeps = nRunning
           /\ pc \in {"get_status", "done"}

C10_Witness ==
    /\ outcome = Returned("FAILURE")
    /\ nChecks = 3 /\ nRunning = 2 /\ nSleeps = 2
    /\ nGetStatus = 1

\* C11: in one call the connection is attempted at most once, has_job is
\* called at most once and job.invoke at most once (only is_running is
\* repeated); a failed connection ends the call at once with BackendError,
\* without has_job, invoke or any poll.
C11_FailFast ==
    /\ nConnect <= 1 /\ nHasJob <= 1 /\ nInvoke <= 1
    /\ (pc = "done" /\ nConnect = 1 /\ nHasJob = 0) =>
           /\ outcome = Raised("BackendError", "err")
           /\ nInvoke = 0
           /\ nChecks = 0 /\ nSleeps = 0
           /\ nGetStatus = 0
    /\ nHasJob = 1 => nConnect = 1
    /\ nInvoke = 1 => (nHasJob = 1 /\ jobFound = "true")
    /\ nChecks > 0 => nInvoke = 1

C11_Witness ==
    /\ pc = "done"
    /\ nConnect = 1 /\ nHasJob = 0
    /\ outcome.exc = "BackendError"

\* C12: a call that leaves job_params at its default proceeds to connect and
\* triggers the job with an empty set of build parameters, as a call with an
\* empty set of pairs does.
C12_ParamsOptional ==
    (job_params = "None" /\ pc # "start") =>
        /\ pc = "connect" \/ nConnect = 1
        /\ outcome.exc # "TypeError"
        /\ request_params = {}

----------------------------------------------------------------------------
(* Properties of two producers (SpecTwo) *)

\* The producer state after k pulls of a producer consumed alone
RECURSIVE AloneGen(_, _, _, _, _)
AloneGen(tr, rem, b, f, k) ==
    IF k = 0 THEN NewExpo
    ELSE ExpoNext(AloneGen(tr, rem, b, f, k - 1), tr, rem, b, f).gen

\* The k-th value of a producer consumed alone
AloneValue(tr, rem, b, f, k) ==
    ExpoNext(AloneGen(tr, rem, b, f, k - 1), tr, rem, b, f).value

\* C13: each producer starts a fresh sequence at factor*base^0, and under
\* any interleaving of pulls each of two producers has yielded exactly the
\* values it would yield if consumed alone.
C13_ProducersIndependent ==
    /\ \A i \in 1..Len(waits) :
           waits[i] = AloneValue(tries, remainder, base, factor, i)
    /\ \A i \in 1..Len(other.waits) :
           other.waits[i] = AloneValue(other.tries, other.remainder,
                                       other.base, other.factor, i)
    /\ (waits # <<>> /\ tries >= 1) => waits[1] = factor
    /\ (other.waits # <<>> /\ other.tries >= 1) => other.waits[1] = other.factor
    /\ gen = AloneGen(tries, remainder, base, factor, Len(waits))
    /\ other.gen = AloneGen(other.tries, other.remainder, other.base,
                            other.factor, Len(other.waits))

C13_Witness ==
    /\ timeout = 5 /\ base = 2 /\ factor = 1
    /\ other.timeout = 5 /\ other.base = 2 /\ other.factor = 1
    /\ waits = <<1, 2, 2>>
    /\ other.waits = <<1>>

----------------------------------------------------------------------------
(* The default schedule of trigger_build (SpecBackoff) *)

\* The rows <<wait, attempt, total time (sec)>> of the table in the docstring
\* of _backoff_timeout, from the row of attempt 1.
DocTable ==
    << <<0, 1, 0>>, <<1, 2, 1>>, <<2, 3, 3>>, <<4, 4, 7>>, <<8, 5, 15>>,
       <<16, 6, 31>>, <<32, 7, 63>>, <<64, 8, 127>>, <<128, 9, 255>>,
       <<256, 10, 511>>, <<512, 11, 1023>>, <<1024, 12, 2047>>,
       <<2048, 13, 4095>> >>

IsDefaultSchedule ==
    called /\ timeout = DefaultTimeout /\ base = 2 /\ factor = 1

\* The k-th wait and the time of attempt k+1 are those of the table, for
\* every exponential wait produced so far.
AgreesWithDocTable ==
    \A k \in 1..Min(Len(waits), tries) :
        /\ k + 1 <= Len(DocTable)
        /\ DocTable[k + 1][1] = waits[k]
        /\ DocTable[k + 1][2] = k + 1
        /\ DocTable[k + 1][3] = SumFirst(waits, k)

\* C14 as stated: for base=2, factor=1, timeout=1800 the schedule agrees with
\* the docstring table and its exponential waits run through 2048 (attempt
\* 13) before the remainder is produced.
C14_ThroughTable ==
    IsDefaultSchedule =>
        /\ AgreesWithDocTable
        /\ factor * Pow(base, tries - 1) = 2048
        /\ tries + 1 = 13

\* C14 amended: the schedule agrees with the docstring table on its
\* exponential waits, which run through 512 (10 waits, attempt 11 at 1023 s);
\* then the remainder 777 is produced, and max_tries = 12.
C14_ThroughRemainder ==
    IsDefaultSchedule =>
        /\ AgreesWithDocTable
        /\ tries = 10
        /\ factor * Pow(base, tries - 1) = 512
        /\ remainder = 777
        /\ max_tries = 12
        /\ Len(waits) >= 11 => (waits[11] = 777 /\ SumFirst(waits, 11) = 1800)

C14_Witness ==
    /\ IsDefaultSchedule
    /\ Len(waits) = 11
    /\ waits[10] = 512

----------------------------------------------------------------------------
(* Properties of the polling loop (Spec, SpecFair) *)

\* The order of checks and sleeps: the first check precedes any sleep, every
\* sleep follows a check that reported running before the last allowed one,
\* one value is pulled per sleep, and right after every check the number of
\* sleeps is the number of checks minus one.
ChecksAndSleepsAlternate ==
    /\ called => nChecks <= max_tries
    /\ nChecks = 0 => (nSleeps = 0 /\ slept = 0 /\ pc # "sleep")
    /\ pc = "check" => nSleeps = nChecks
    /\ (pc # "check" /\ nChecks > 0) => nSleeps = nChecks - 1
    /\ Len(waits) = IF pc = "sleep" THEN nSleeps + 1 ELSE nSleeps
    /\ pc = "sleep" => (lastCheck = "running" /\ nChecks < max_tries)
    /\ \A k \in 1..Len(waits) :
           waits[k] = AloneValue(tries, remainder, base, factor, k)

PollEnded == nChecks > 0 /\ pc \notin {"check", "sleep"}

\* C16: once the build has started the polling loop terminates, whatever
\* is_running answers; it makes at most max_tries checks and, unless a check
\* itself failed, it ends only because a check reported not running or
\* because the max_tries-th check still reported running, which is the
\* timeout failure.
C16_PollTerminates ==
    /\ [](called => nChecks <= max_tries)
    /\ []((PollEnded /\ lastCheck # "raised") =>
             \/ lastCheck = "finished" /\ outcome # TimeoutError
             \/ /\ lastCheck = "running"
                /\ nRunning = max_tries
                /\ outcome = TimeoutError)
    /\ (pc = "poll") ~> PollEnded

C16_Witness ==
    /\ PollEnded
    /\ max_tries = 4
    /\ nRunning = 4
    /\ outcome = TimeoutError

----------------------------------------------------------------------------
(* Further properties of the schedule (SpecBackoff) *)

\* C17: the producer never resumes the exponential progression: its counter
\* n stops at tries, and every value after the first `tries` values is the
\* same remainder, which is 0 when timeout is an exact sum.
C17_RemainderForever ==
    called =>
        /\ gen.n <= tries
        /\ \A i \in (tries + 1)..Len(waits) : waits[i] = remainder
        /\ Len(waits) > tries => gen = [n |-> tries, at |-> "yield_remainder"]
        /\ IsExactSum(timeout, base, factor) => remainder = 0

\* C18: for fixed base and factor max_tries is non-decreasing in timeout:
\* no smaller timeout gets a larger max_tries than the one returned; and
\* max_tries is at least 1.
C18_MaxTriesMonotone ==
    called =>
        /\ max_tries >= 1
        /\ max_tries = BackoffMaxTries(timeout, base, factor)
        /\ \A t1 \in 0..timeout :
               /\ BackoffMaxTries(t1, base, factor) >= 1
               /\ BackoffMaxTries(t1, base, factor) <= max_tries

C18_Witness ==
    /\ called
    /\ timeout = 121 /\ base = 3 /\ factor = 1
    /\ max_tries = 6
    /\ BackoffMaxTries(120, base, factor) = 6
    /\ BackoffMaxTries(39, base, factor) = 5

====
